---- MODULE Spec2Model ----
(***************************************************************************)
(* cloudy_salesforce: the batched-write orchestration of                   *)
(* collections/crud_operations.py, the paginated read of query/query.py    *)
(* and the default instance of client/salesforceclient.py, as state        *)
(* machines.                                                               *)
(*                                                                         *)
(* Python values are modelled as follows.  A dict is a function whose      *)
(* DOMAIN is its key set.  A list is a sequence.  An object that the code  *)
(* mutates in place (an input record, a query collection) lives in a heap  *)
(* and is referred to by a reference.  None is the string "None".          *)
(***************************************************************************)
EXTENDS Integers, Sequences, FiniteSets, TLC

\* Bounds of the model.
MaxRecords == 3
MaxBatch == 3
MaxFetch == 4
MaxCalls == 4

None == "None"
Min(a, b) == IF a <= b THEN a ELSE b

VARIABLES
    \* ---- Batch Writer (collections.decorator.wrapper) ----
    operation,        \* the CRUDLiteral given to @collections
    object_type,      \* result["object_type"]
    records,          \* result["records"]: the caller's list, as references
    heap,             \* reference -> the record dict it denotes
    all_or_none,      \* result["all_or_none"]
    batch_size,       \* result["batch_size"]
    external_id_field,\* result["external_id_field"] (upsert only, else None)
    wpc,              \* position of the wrapper
    batches,          \* the list batch_records(...) returned
    k,                \* 1-based index of the batch the for loop is at
    calls,            \* every request handed to the session, in order
    responses,        \* every dml_response received, in order
    results,          \* the local accumulator `results`
    returned,         \* what the caller got back
    error,            \* the exception that left the wrapper, or None
    given,            \* the records list and the dicts as the caller passed them
    \* ---- Paginated Reader (soql_query.decorator.wrapper) ----
    server,           \* the pages the service has served, by request url
    colls,            \* owner -> the {totalSize, done, records, nextRecordsUrl}
                      \* dict it holds; Top owns the wrapper's `results`
    rpc,              \* position of the wrapper
    target,           \* the `results` argument of the running query_all
    url,              \* the local `url` of the running query_all
    params,           \* the local `params` of the running query_all
    stack,            \* the live handle_nested_queries calls, innermost last
    requests,         \* every request handed to client.request, in order
    qreturned,        \* what the caller got back
    qerror,           \* the exception that left the wrapper, or None
    \* ---- the client of an entry point (insert .. delete, query) ----
    client_arg,       \* the `client` argument, NoClient for None
    client,           \* the client the entry point resolved, props["client"]
    \* ---- SalesforceClient (class state) ----
    default_instance, \* SalesforceClient._default_instance, NoClient for None
    nclients,         \* how many clients have been constructed: 1..nclients
    history,          \* the constructions and set_default_instance calls made
    lookup            \* the outcome of the get_default_instance just made

wvars == <<operation, object_type, records, heap, all_or_none, batch_size,
           external_id_field, wpc, batches, k, calls, responses, results,
           returned, error, given>>

rvars == <<server, colls, rpc, target, url, params, stack, requests,
           qreturned, qerror>>

evars == <<client_arg, client>>

cvars == <<default_instance, nclients, history, lookup>>

vars == <<wvars, rvars, evars, cvars>>

(***************************************************************************)
(* Inputs of a write.                                                      *)
(***************************************************************************)
CRUDLiteral == {"insert", "upsert", "update", "delete"}

IdValue(i) == 100 + i
LowerIdValue(i) == 200 + i

\* The i-th input record: a Name field and the identifier keys `keys`.
MakeRecord(i, keys) ==
    [f \in keys \cup {"Name"} |->
        CASE f = "Id" -> IdValue(i)
          [] f = "id" -> LowerIdValue(i)
          [] OTHER -> i]

\* Identifier keys the records of an operation carry: new records have none,
\* records to update carry Id, records to delete come from anywhere.
KeyChoices(op) ==
    CASE op = "insert" -> {{}}
      [] op = "delete" -> SUBSET {"Id", "id"}
      [] OTHER -> {{"Id"}}

NoResult == [has |-> FALSE, value |-> <<>>]

(***************************************************************************)
(* Helpers of crud_operations.py.                                          *)
(***************************************************************************)
\* Python's s[a:b] for 0 <= a <= b.
Slice(s, a, b) == SubSeq(s, a + 1, Min(b, Len(s)))

\* range(0, n, step) as the ascending sequence of its values.
RangeFrom0(n, step) ==
    LET cnt == Cardinality({i \in 0..(n - 1) : i % step = 0})
    IN [j \in 1..cnt |-> (j - 1) * step]

\* A seeded fault: the slice is one element too long.
batch_records_overlap(recs, size) ==
    LET starts == RangeFrom0(Len(recs), size)
    IN [j \in 1..Len(starts) |-> Slice(recs, starts[j], starts[j] + size + 1)]

\* [records[i : i + batch_size] for i in range(0, len(records), batch_size)]
batch_records(recs, size) ==
    LET starts == RangeFrom0(Len(recs), size)
    IN [j \in 1..Len(starts) |-> Slice(recs, starts[j], starts[j] + size)]

\* for record in records: record["attributes"] = {"type": object_type}
\* A seeded fault: every record the caller passed is tagged, not only those
\* of the batch at hand.
add_attributes_all(h, recs, otype) ==
    [r \in DOMAIN h |->
        [f \in DOMAIN h[r] \cup {"attributes"} |->
            IF f = "attributes" THEN [type |-> otype] ELSE h[r][f]]]

add_attributes(h, recs, otype) ==
    [r \in DOMAIN h |->
        IF \E i \in 1..Len(recs) : recs[i] = r
        THEN [f \in DOMAIN h[r] \cup {"attributes"} |->
                IF f = "attributes" THEN [type |-> otype] ELSE h[r][f]]
        ELSE h[r]]

\* The loop of get_id_list from position i on, ids collected so far.
RECURSIVE get_id_list_from(_, _, _, _)
get_id_list_from(h, recs, i, ids) ==
    IF i > Len(recs) THEN [raised |-> FALSE, ids |-> ids]
    ELSE IF "Id" \in DOMAIN h[recs[i]]
         THEN get_id_list_from(h, recs, i + 1, Append(ids, h[recs[i]]["Id"]))
    ELSE IF "id" \in DOMAIN h[recs[i]]
         THEN get_id_list_from(h, recs, i + 1, Append(ids, h[recs[i]]["id"]))
    ELSE [raised |-> TRUE, ids |-> <<>>]

\* A seeded fault: the lower-case key is looked up first.
get_id_list_lower_first(h, recs) ==
    IF \E i \in 1..Len(recs) : DOMAIN h[recs[i]] \cap {"Id", "id"} = {}
    THEN [raised |-> TRUE, ids |-> <<>>]
    ELSE [raised |-> FALSE,
          ids |-> [i \in 1..Len(recs) |->
                     IF "id" \in DOMAIN h[recs[i]]
                     THEN h[recs[i]]["id"] ELSE h[recs[i]]["Id"]]]

get_id_list(h, recs) == get_id_list_from(h, recs, 1, <<>>)

V61Sobjects == "/services/data/v61.0/composite/sobjects"
V60Sobjects == "/services/data/v60.0/composite/sobjects/"

\* build_payload: the (url, body) pair, whether it raised, and the heap it
\* leaves (add_attributes writes into the caller's records).  A url is its
\* fixed prefix, the path segments appended to it and its query parameters.
build_payload(op, h, recs, otype, aon, external_id) ==
    IF op = "delete"
    THEN LET got == get_id_list(h, recs)
         IN [raised |-> got.raised,
             url |-> [base |-> V61Sobjects, segs |-> <<>>,
                      ids |-> got.ids, allOrNone |-> <<aon>>],
             body |-> None,
             heap |-> h]
    ELSE LET tagged == add_attributes(h, recs, otype)
             body == [allOrNone |-> aon, records |-> recs]
         IN IF op = "upsert"
            THEN [raised |-> FALSE,
                  url |-> [base |-> V61Sobjects,
                           segs |-> <<otype, IF external_id = None
                                             THEN "Id" ELSE external_id>>,
                           ids |-> <<>>, allOrNone |-> <<>>],
                  body |-> body,
                  heap |-> tagged]
            ELSE [raised |-> FALSE,
                  url |-> [base |-> V60Sobjects, segs |-> <<>>,
                           ids |-> <<>>, allOrNone |-> <<>>],
                  body |-> body,
                  heap |-> tagged]

\* CRUDOperation: the HTTP method bound into collections_request.
CRUDOperation(op) ==
    CASE op = "insert" -> "POST"
      [] op = "update" -> "PATCH"
      [] op = "upsert" -> "PATCH"
      [] op = "delete" -> "DELETE"

\* zip(records, dml_response) as the list of record_result dicts.
ZipResults(recs, resp) ==
    [i \in 1..Min(Len(recs), Len(resp)) |->
        [record |-> recs[i], response |-> resp[i]]]

(***************************************************************************)
(* The service's answer to one collections request: a list of per-record   *)
(* outcomes.  The service is not bound to answer with one outcome per      *)
(* record: the list may be one shorter or one longer than the batch.  Each *)
(* outcome carries its position in the answer, so that the pairing the     *)
(* wrapper makes can be read off the result.                               *)
(***************************************************************************)
Outcomes(len, failing) ==
    [i \in 1..len |-> [success |-> (i # failing), pos |-> i]]

ServiceAnswers(batch) ==
    {Outcomes(len, failing) :
        len \in {n \in (Len(batch) - 1)..(Len(batch) + 1) : n >= 0},
        failing \in 0..1}

\* What raise_for_status / the transport can raise in collections_request.
GatewayErrors == {"HTTPError", "ConnectionError"}

(***************************************************************************)
(* SalesforceClient: the class attribute _default_instance and the clients *)
(* constructed so far.  A client is the number of its construction.        *)
(***************************************************************************)
NoClient == 0

Constructed(c) == [op |-> "construct", client |-> c]
SetAsDefault(c) == [op |-> "set_default_instance", client |-> c]

NotAsked == [called |-> FALSE, raised |-> FALSE, value |-> NoClient]

\* get_default_instance, lines 44-46.
get_default_instance(default) ==
    IF default = NoClient
    THEN [called |-> TRUE, raised |-> TRUE, value |-> NoClient]
    ELSE [called |-> TRUE, raised |-> FALSE, value |-> default]

\* The class state an entry point finds, and the client it is given: no
\* client was ever made and none is passed; or two were made, the first is
\* the default, and either none or the second is passed.
EntrySetup ==
    /\ lookup = NotAsked
    /\ client = NoClient
    /\ \/ /\ nclients = 0
          /\ history = <<>>
          /\ default_instance = NoClient
          /\ client_arg = NoClient
       \/ /\ nclients = 2
          /\ history = <<Constructed(1), Constructed(2)>>
          /\ default_instance = 1
          /\ client_arg \in {NoClient, 2}

\* No read is running.
ReaderIdle ==
    /\ server = <<>>
    /\ colls = <<>>
    /\ rpc = "idle"
    /\ target = None
    /\ url = None
    /\ params = None
    /\ stack = <<>>
    /\ requests = <<>>
    /\ qreturned = NoResult
    /\ qerror = None

(***************************************************************************)
(* The Batch Writer: insert / update / upsert / delete and the wrapper of  *)
(* @collections around them.                                               *)
(***************************************************************************)
InitWriter ==
    /\ operation \in CRUDLiteral
    /\ object_type = "Account"
    /\ \E n \in 0..MaxRecords :
         /\ records = [i \in 1..n |-> i]
         /\ \E keys \in [1..n -> KeyChoices(operation)] :
              heap = [i \in 1..n |-> MakeRecord(i, keys[i])]
    /\ given = [records |-> records, heap |-> heap]
    /\ all_or_none \in BOOLEAN
    /\ batch_size \in 1..MaxBatch
    /\ external_id_field \in
         (IF operation = "upsert" THEN {None, "Ext__c"} ELSE {None})
    /\ wpc = "call"
    /\ batches = <<>>
    /\ k = 0
    /\ calls = <<>>
    /\ responses = <<>>
    /\ results = <<>>
    /\ returned = NoResult
    /\ error = None
    /\ ReaderIdle
    /\ EntrySetup

\* wrapper, lines 81-89: the decorated function builds its props, calling
\* SalesforceClient() without the auth_strategy that __init__ requires when
\* no client was passed (insert, lines 133-134, and alike in update, upsert
\* and delete); then the for loop starts over batch_records(...).
EnterWrapper ==
    /\ wpc = "call"
    /\ IF client_arg = NoClient
       THEN /\ wpc' = "raised"
            /\ error' = "TypeError"
            /\ UNCHANGED <<batches, k, results, client>>
       ELSE /\ client' = client_arg
            /\ batches' = batch_records(records, batch_size)
            /\ k' = 1
            /\ results' = <<>>
            /\ wpc' = "loop"
            /\ error' = error
    /\ UNCHANGED <<operation, object_type, records, heap, all_or_none,
                   batch_size, external_id_field, calls, responses,
                   returned, given, client_arg>>
    /\ UNCHANGED <<rvars, cvars>>

\* A seeded fault: the request is sent and the loop moves on to the next
\* batch without waiting for the answer.
SendBatchNoWait ==
    /\ wpc = "loop"
    /\ k <= Len(batches)
    /\ LET p == build_payload(operation, heap, batches[k], object_type,
                              all_or_none, None)
       IN IF p.raised
          THEN /\ wpc' = "raised"
               /\ error' = "ValueError"
               /\ UNCHANGED <<heap, calls, k>>
          ELSE /\ heap' = p.heap
               /\ calls' = Append(calls,
                     [method |-> CRUDOperation(operation), url |-> p.url,
                      body |-> p.body, batch |-> k])
               /\ k' = k + 1
               /\ wpc' = "loop"
               /\ error' = error
    /\ UNCHANGED <<operation, object_type, records, all_or_none, batch_size,
                   external_id_field, batches, responses, results, returned>>
    /\ UNCHANGED given
    /\ UNCHANGED <<rvars, evars, cvars>>

\* A seeded fault: a delete checks the identifiers of all its records before
\* it sends the first batch.
SendBatchValidatedUpFront ==
    /\ wpc = "loop"
    /\ k <= Len(batches)
    /\ LET p == build_payload(operation, heap, batches[k], object_type,
                              all_or_none, None)
           all == build_payload(operation, heap, records, object_type,
                                all_or_none, None)
       IN IF p.raised \/ (operation = "delete" /\ all.raised)
          THEN /\ wpc' = "raised"
               /\ error' = "ValueError"
               /\ UNCHANGED <<heap, calls>>
          ELSE /\ heap' = p.heap
               /\ calls' = Append(calls,
                     [method |-> CRUDOperation(operation), url |-> p.url,
                      body |-> p.body, batch |-> k])
               /\ wpc' = "await"
               /\ error' = error
    /\ UNCHANGED <<operation, object_type, records, all_or_none, batch_size,
                   external_id_field, batches, k, responses, results,
                   returned>>
    /\ UNCHANGED given
    /\ UNCHANGED <<rvars, evars, cvars>>

\* wrapper, lines 90-95 with collections_request lines 44-48: the payload of
\* batch k is built (no external_id is passed) and the request is sent.
SendBatch ==
    /\ wpc = "loop"
    /\ k <= Len(batches)
    /\ LET p == build_payload(operation, heap, batches[k], object_type,
                              all_or_none, None)
       IN IF p.raised
          THEN /\ wpc' = "raised"
               /\ error' = "ValueError"
               /\ UNCHANGED <<heap, calls>>
          ELSE /\ heap' = p.heap
               /\ calls' = Append(calls,
                     [method |-> CRUDOperation(operation), url |-> p.url,
                      body |-> p.body, batch |-> k])
               /\ wpc' = "await"
               /\ error' = error
    /\ UNCHANGED <<operation, object_type, records, all_or_none, batch_size,
                   external_id_field, batches, k, responses, results,
                   returned>>
    /\ UNCHANGED given
    /\ UNCHANGED <<rvars, evars, cvars>>

\* collections_request lines 49-50, then wrapper lines 98-107: the answer is
\* zipped with the batch and appended to results.
ReceiveAnswer ==
    /\ wpc = "await"
    /\ \E dml_response \in ServiceAnswers(batches[k]) :
         /\ responses' = Append(responses, dml_response)
         /\ results' = results \o ZipResults(batches[k], dml_response)
    /\ k' = k + 1
    /\ wpc' = "loop"
    /\ UNCHANGED <<operation, object_type, records, heap, all_or_none,
                   batch_size, external_id_field, batches, calls, returned,
                   error>>
    /\ UNCHANGED given
    /\ UNCHANGED <<rvars, evars, cvars>>

\* A seeded fault: the error is logged and swallowed, the loop goes on.
GatewayFailsSwallowed ==
    /\ wpc = "await"
    /\ \E e \in GatewayErrors : error' = e
    /\ responses' = Append(responses, <<>>)
    /\ k' = k + 1
    /\ wpc' = "loop"
    /\ UNCHANGED <<operation, object_type, records, heap, all_or_none,
                   batch_size, external_id_field, batches, calls, results,
                   returned>>
    /\ UNCHANGED given
    /\ UNCHANGED <<rvars, evars, cvars>>

\* collections_request lines 52-57: the error is logged and raised again;
\* nothing in the wrapper catches it.
GatewayFails ==
    /\ wpc = "await"
    /\ \E e \in GatewayErrors : error' = e
    /\ wpc' = "raised"
    /\ UNCHANGED <<operation, object_type, records, heap, all_or_none,
                   batch_size, external_id_field, batches, k, calls,
                   responses, results, returned>>
    /\ UNCHANGED given
    /\ UNCHANGED <<rvars, evars, cvars>>

\* wrapper, lines 109-116: the loop is over, results is returned.
ReturnResults ==
    /\ wpc = "loop"
    /\ k > Len(batches)
    /\ returned' = [has |-> TRUE, value |-> results]
    /\ wpc' = "returned"
    /\ UNCHANGED <<operation, object_type, records, heap, all_or_none,
                   batch_size, external_id_field, batches, k, calls,
                   responses, results, error>>
    /\ UNCHANGED given
    /\ UNCHANGED <<rvars, evars, cvars>>

NextWriter ==
    \/ EnterWrapper
    \/ SendBatch
    \/ ReceiveAnswer
    \/ GatewayFails
    \/ ReturnResults

SpecWriter == InitWriter /\ [][NextWriter]_vars

(***************************************************************************)
(* The service as the Paginated Reader sees it.                            *)
(*                                                                         *)
(* A page is the dict {totalSize, done, records, nextRecordsUrl?}.  Every  *)
(* page holds two records, "r1" and "r2"; r1 may hold a nested collection  *)
(* (a subquery result) in one of its fields, whose partial record list is  *)
(* one child record "kid", which may in turn hold a nested collection with *)
(* one record "gkid".  The service answers a url it has answered before    *)
(* with the same page.  A record, and the collection it holds, is an       *)
(* object of its own each time the page is parsed: its reference is the    *)
(* request that brought it and its place in the page.                      *)
(***************************************************************************)
QueryUrl == "/services/data/v52.0/query"
Cursors == {"/cursor1", "/cursor2"}
Absent == "absent"           \* the key is not in the dict
TotalSizes == {2, 4}

Top == [f |-> 0, t |-> "results"]
Ref(f, t) == [f |-> f, t |-> t]

NoShape == [has |-> FALSE, done |-> Absent, next |-> Absent, kid |-> "leaf"]

\* The nested collection of r1: its done flag (possibly missing), its
\* nextRecordsUrl (possibly missing), and whether its child record holds a
\* nested collection of its own, unfinished, with cursor `kid`.
Shapes ==
    {NoShape} \cup
    [has : {TRUE}, done : {"true", "false", Absent},
     next : {Absent} \cup Cursors, kid : {"leaf"} \cup Cursors]

\* The first page answers the query; pages behind a cursor carry at most a
\* plain unfinished nested collection.
ShapesOf(u) ==
    IF u = QueryUrl THEN Shapes
    ELSE {sh \in Shapes : sh = NoShape \/
             (sh.done = "false" /\ sh.next \in Cursors /\ sh.kid = "leaf")}

PagesOf(u) ==
    [done : {"true", "false"}, next : {Absent} \cup Cursors,
     totalSize : TotalSizes, shape : ShapesOf(u)]

\* The records list of the page brought by request number f.
PageRecords(f) == <<Ref(f, "r1"), Ref(f, "r2")>>

\* The nested collections inside the page brought by request number f.
PageColls(f, page) ==
    LET sh == page.shape
        own == IF sh.has
               THEN {<<Ref(f, "r1"),
                       [totalSize |-> 1, done |-> sh.done,
                        records |-> <<Ref(f, "kid")>>, next |-> sh.next]>>}
               ELSE {}
        kids == IF sh.has /\ sh.kid \in Cursors
                THEN {<<Ref(f, "kid"),
                        [totalSize |-> 1, done |-> "false",
                         records |-> <<Ref(f, "gkid")>>, next |-> sh.kid]>>}
                ELSE {}
    IN own \cup kids

\* dict.get("nextRecordsUrl")
GetNext(page) == IF page.next = Absent THEN None ELSE page.next

\* A seeded fault: the page's records replace the accumulated ones.
MergePageReplacing(res, page, f) ==
    [totalSize |-> page.totalSize, done |-> page.done,
     records |-> PageRecords(f), next |-> GetNext(page)]

\* query_all, lines 56-59: the four assignments into results.
MergePage(res, page, f) ==
    [totalSize |-> page.totalSize, done |-> page.done,
     records |-> res.records \o PageRecords(f), next |-> GetNext(page)]

\* query/return_functions.py is not among the sources; soql_query declares
\* return_function as Callable[[dict], T] and the reader returns the result.
response_json_only(res) == res

(***************************************************************************)
(* The Paginated Reader: query and the wrapper of @soql_query around it.   *)
(***************************************************************************)
WriterIdle ==
    /\ operation = "insert"
    /\ object_type = "Account"
    /\ records = <<>>
    /\ heap = <<>>
    /\ all_or_none = TRUE
    /\ batch_size = 1
    /\ external_id_field = None
    /\ wpc = "idle"
    /\ batches = <<>>
    /\ k = 0
    /\ calls = <<>>
    /\ responses = <<>>
    /\ results = <<>>
    /\ returned = NoResult
    /\ error = None
    /\ given = [records |-> <<>>, heap |-> <<>>]

InitReader ==
    /\ WriterIdle
    /\ EntrySetup
    /\ server = <<>>
    /\ colls = <<>>
    /\ rpc = "call"
    /\ target = None
    /\ url = None
    /\ params = None
    /\ stack = <<>>
    /\ requests = <<>>
    /\ qreturned = NoResult
    /\ qerror = None

\* query, lines 81-82, then wrapper, lines 35-62: the client is the one
\* passed or else the default instance; results is created and
\* query_all(url, params, results) is entered.
EnterQuery ==
    /\ rpc = "call"
    /\ LET found == IF client_arg = NoClient
                    THEN get_default_instance(default_instance)
                    ELSE [called |-> FALSE, raised |-> FALSE,
                          value |-> client_arg]
       IN IF found.raised
          THEN /\ rpc' = "raised"
               /\ qerror' = "ValueError"
               /\ UNCHANGED <<colls, target, url, params, client>>
          ELSE /\ client' = found.value
               /\ colls' = (Top :> [totalSize |-> 0, done |-> "false",
                                    records |-> <<>>, next |-> None])
               /\ target' = Top
               /\ url' = QueryUrl
               /\ params' = "q"
               /\ rpc' = "query_all"
               /\ qerror' = qerror
    /\ UNCHANGED <<server, stack, requests, qreturned, client_arg>>
    /\ UNCHANGED <<wvars, cvars>>

\* The while condition of query_all, line 48, when it does not raise.
LoopGoesOn == colls[target].done = "false" /\ url # None

CanRequest == Len(requests) < MaxFetch

\* query_all, lines 48-60: one turn of the while loop with a dict answer.
FetchPage ==
    /\ rpc = "query_all"
    /\ colls[target].done # Absent
    /\ LoopGoesOn
    /\ CanRequest
    /\ \E page \in PagesOf(url) :
         /\ url \in DOMAIN server => page = server[url]
         /\ LET f == Len(requests) + 1
                fresh == PageColls(f, page)
            IN /\ server' = (url :> page) @@ server
               /\ colls' = [o \in DOMAIN colls \cup {c[1] : c \in fresh} |->
                              IF o = target THEN MergePage(colls[o], page, f)
                              ELSE IF o \in DOMAIN colls THEN colls[o]
                              ELSE (CHOOSE c \in fresh : c[1] = o)[2]]
               /\ url' = GetNext(page)
    /\ requests' = Append(requests,
                          [url |-> url, params |-> params, into |-> target])
    /\ params' = None
    /\ UNCHANGED <<rpc, target, stack, qreturned, qerror>>
    /\ UNCHANGED <<wvars, evars, cvars>>

\* SalesforceClient.request, lines 69-74: the request fails and the error
\* leaves query_all and the wrapper.
RequestFails ==
    /\ rpc = "query_all"
    /\ colls[target].done # Absent
    /\ LoopGoesOn
    /\ CanRequest
    /\ requests' = Append(requests,
                          [url |-> url, params |-> params, into |-> target])
    /\ \E e \in GatewayErrors : qerror' = e
    /\ rpc' = "raised"
    /\ UNCHANGED <<server, colls, target, url, params, stack, qreturned>>
    /\ UNCHANGED <<wvars, evars, cvars>>

\* query_all, lines 50-53: the answer is JSON but not a dict.
AnswerNotADict ==
    /\ rpc = "query_all"
    /\ colls[target].done # Absent
    /\ LoopGoesOn
    /\ CanRequest
    /\ requests' = Append(requests,
                          [url |-> url, params |-> params, into |-> target])
    /\ qerror' = "ValueError"
    /\ rpc' = "raised"
    /\ UNCHANGED <<server, colls, target, url, params, stack, qreturned>>
    /\ UNCHANGED <<wvars, evars, cvars>>

\* query_all, line 48: results["done"] on a dict without that key.
DoneKeyMissing ==
    /\ rpc = "query_all"
    /\ colls[target].done = Absent
    /\ qerror' = "KeyError"
    /\ rpc' = "raised"
    /\ UNCHANGED <<server, colls, target, url, params, stack, requests,
                   qreturned>>
    /\ UNCHANGED <<wvars, evars, cvars>>

\* query_all returns (line 48 is false); lines 62-71: the wrapper, or the
\* handle_nested_queries that called it, calls handle_nested_queries on the
\* records of the collection just filled.
LeaveQueryAll ==
    /\ rpc = "query_all"
    /\ colls[target].done # Absent
    /\ ~ LoopGoesOn
    /\ stack' = Append(stack, [coll |-> target, i |-> 1])
    /\ rpc' = "scan"
    /\ UNCHANGED <<server, colls, target, url, params, requests, qreturned,
                   qerror>>
    /\ UNCHANGED <<wvars, evars, cvars>>

Frame == stack[Len(stack)]
AtRecord == Frame.i <= Len(colls[Frame.coll].records)
Record == colls[Frame.coll].records[Frame.i]
\* isinstance(value, dict) and "nextRecordsUrl" in value, for a field of Record
HoldsCursorKey == Record \in DOMAIN colls /\ colls[Record].next # Absent
StepFrame == [stack EXCEPT ![Len(stack)].i = @ + 1]

\* handle_nested_queries, lines 65-67: no field of the record is a dict with
\* a nextRecordsUrl key; on to the next record.
SkipRecord ==
    /\ rpc = "scan"
    /\ stack # <<>>
    /\ AtRecord
    /\ ~ HoldsCursorKey
    /\ stack' = StepFrame
    /\ UNCHANGED <<server, colls, rpc, target, url, params, requests,
                   qreturned, qerror>>
    /\ UNCHANGED <<wvars, evars, cvars>>

\* handle_nested_queries, lines 67-68:
\* query_all(value["nextRecordsUrl"], None, value).
EnterNested ==
    /\ rpc = "scan"
    /\ stack # <<>>
    /\ AtRecord
    /\ HoldsCursorKey
    /\ target' = Record
    /\ url' = colls[Record].next
    /\ params' = None
    /\ stack' = StepFrame
    /\ rpc' = "query_all"
    /\ UNCHANGED <<server, colls, requests, qreturned, qerror>>
    /\ UNCHANGED <<wvars, evars, cvars>>

\* handle_nested_queries, line 65: the for loop is over, the call returns.
LeaveRecords ==
    /\ rpc = "scan"
    /\ stack # <<>>
    /\ ~ AtRecord
    /\ stack' = SubSeq(stack, 1, Len(stack) - 1)
    /\ UNCHANGED <<server, colls, rpc, target, url, params, requests,
                   qreturned, qerror>>
    /\ UNCHANGED <<wvars, evars, cvars>>

\* wrapper, line 73: return return_function(results).
ReturnQuery ==
    /\ rpc = "scan"
    /\ stack = <<>>
    /\ qreturned' = [has |-> TRUE, value |-> response_json_only(colls[Top])]
    /\ rpc' = "returned"
    /\ UNCHANGED <<server, colls, target, url, params, stack, requests,
                   qerror>>
    /\ UNCHANGED <<wvars, evars, cvars>>

NextReader ==
    \/ EnterQuery
    \/ FetchPage
    \/ RequestFails
    \/ AnswerNotADict
    \/ DoneKeyMissing
    \/ LeaveQueryAll
    \/ SkipRecord
    \/ EnterNested
    \/ LeaveRecords
    \/ ReturnQuery

SpecReader == InitReader /\ [][NextReader]_vars

(***************************************************************************)
(* SalesforceClient: a process that constructs clients, sets and gets the  *)
(* default instance, in any order.                                         *)
(***************************************************************************)
Rejected == [op |-> "rejected", client |-> NoClient]

InitClient ==
    /\ WriterIdle
    /\ ReaderIdle
    /\ client_arg = NoClient
    /\ client = NoClient
    /\ default_instance = NoClient
    /\ nclients = 0
    /\ history = <<>>
    /\ lookup = NotAsked

\* A seeded fault: the client under construction always becomes the default.
ConstructReplacing ==
    /\ Len(history) < MaxCalls
    /\ \E is_auth \in BOOLEAN :
         IF is_auth
         THEN /\ nclients' = nclients + 1
              /\ default_instance' = nclients + 1
              /\ history' = Append(history, Constructed(nclients + 1))
         ELSE /\ history' = Append(history, Rejected)
              /\ UNCHANGED <<nclients, default_instance>>
    /\ lookup' = NotAsked
    /\ UNCHANGED <<wvars, rvars, evars>>

\* SalesforceClient(auth_strategy), __init__, lines 16-25: TypeError unless
\* auth_strategy is a BaseAuthentication; the new client becomes the default
\* only when there is none.
Construct ==
    /\ Len(history) < MaxCalls
    /\ \E is_auth \in BOOLEAN :
         IF is_auth
         THEN /\ nclients' = nclients + 1
              /\ default_instance' = IF default_instance = NoClient
                                     THEN nclients + 1
                                     ELSE default_instance
              /\ history' = Append(history, Constructed(nclients + 1))
         ELSE /\ history' = Append(history, Rejected)
              /\ UNCHANGED <<nclients, default_instance>>
    /\ lookup' = NotAsked
    /\ UNCHANGED <<wvars, rvars, evars>>

\* set_default_instance, line 34: cls._default_instance = cls(auth_strategy);
\* the TypeError of __init__ leaves before the assignment.
SetDefaultInstance ==
    /\ Len(history) < MaxCalls
    /\ \E is_auth \in BOOLEAN :
         IF is_auth
         THEN /\ nclients' = nclients + 1
              /\ default_instance' = nclients + 1
              /\ history' = Append(history, SetAsDefault(nclients + 1))
         ELSE /\ history' = Append(history, Rejected)
              /\ UNCHANGED <<nclients, default_instance>>
    /\ lookup' = NotAsked
    /\ UNCHANGED <<wvars, rvars, evars>>

\* get_default_instance, lines 44-46: the default, or ValueError (raised).
GetDefaultInstance ==
    /\ lookup' = get_default_instance(default_instance)
    /\ UNCHANGED <<default_instance, nclients, history>>
    /\ UNCHANGED <<wvars, rvars, evars>>

NextClient ==
    \/ Construct
    \/ SetDefaultInstance
    \/ GetDefaultInstance

SpecClient == InitClient /\ [][NextClient]_vars

(***************************************************************************)
(* Properties of the Batch Writer.                                         *)
(***************************************************************************)
RECURSIVE Flatten(_)
Flatten(ss) == IF ss = <<>> THEN <<>> ELSE Head(ss) \o Flatten(Tail(ss))

RECURSIVE SumLen(_, _)
SumLen(ss, j) == IF j = 0 THEN 0 ELSE SumLen(ss, j - 1) + Len(ss[j])

\* The decorated function returned its props and the wrapper made its batches.
Started == wpc # "call" /\ client # NoClient

\* C1: the batches are non-empty contiguous slices of the record list, each
\* of at most batch_size records, and their concatenation in order is the
\* record list itself.
C1_BatchesPartitionRecords ==
    Started =>
        /\ \A j \in 1..Len(batches) :
             /\ Len(batches[j]) >= 1
             /\ Len(batches[j]) <= batch_size
             /\ batches[j] = SubSeq(records, SumLen(batches, j - 1) + 1,
                                    SumLen(batches, j))
        /\ Flatten(batches) = records

C1_Witness ==
    /\ Started
    /\ Len(batches) >= 2
    /\ Len(batches[Len(batches)]) < batch_size

\* C2: a write that returns normally returns one entry per input record, and
\* entry i holds input record i.
C2_OneResultPerRecord ==
    wpc = "returned" =>
        /\ Len(returned.value) = Len(records)
        /\ \A i \in 1..Len(records) : returned.value[i].record = records[i]

\* C3: an answer whose length differs from its batch's makes the write fail
\* with an arity-mismatch error, without a result.
C3_ArityMismatchFails ==
    \A j \in 1..Len(responses) :
        Len(responses[j]) # Len(batches[j]) =>
            /\ wpc = "raised"
            /\ error = "ResultArityMismatchError"
            /\ returned = NoResult

\* C4: once the gateway call of batch k has failed, the write has ended with
\* that error: batch k was requested once, no later batch was or will be
\* requested, and the caller got no result.
C4_GatewayFailureAborts ==
    error \in GatewayErrors =>
        /\ wpc = "raised"
        /\ returned = NoResult
        /\ Len(calls) = k
        /\ \A i \in 1..Len(calls) : calls[i].batch = i
        /\ Len(responses) = k - 1
        /\ ~ ENABLED NextWriter

C4_Witness ==
    /\ error \in GatewayErrors
    /\ k >= 2
    /\ k < Len(batches)
    /\ Len(results) >= 1

HasNoIdentifier(r) == DOMAIN heap[r] \cap {"Id", "id"} = {}

MissingIdentifier(batch) == \E i \in 1..Len(batch) : HasNoIdentifier(batch[i])

IdentifierOf(r) == IF "Id" \in DOMAIN heap[r] THEN heap[r]["Id"] ELSE heap[r]["id"]

\* C5: the delete payload of a batch fails exactly when a record of the batch
\* has neither Id nor id; otherwise the ids are one per record, in batch
\* order, Id before id.  The same holds of the requests the delete has sent
\* and of the error it has ended with.
C5_DeleteIdentifiers ==
    operation = "delete" =>
        /\ \A j \in 1..Len(batches) :
             LET p == build_payload("delete", heap, batches[j], object_type,
                                    all_or_none, None)
             IN /\ p.raised <=> MissingIdentifier(batches[j])
                /\ ~ p.raised =>
                     /\ Len(p.url.ids) = Len(batches[j])
                     /\ \A i \in 1..Len(batches[j]) :
                          p.url.ids[i] = IdentifierOf(batches[j][i])
        /\ \A c \in 1..Len(calls) :
             /\ ~ MissingIdentifier(batches[calls[c].batch])
             /\ calls[c].url.ids =
                  [i \in 1..Len(batches[calls[c].batch]) |->
                     IdentifierOf(batches[calls[c].batch][i])]
        /\ error = "ValueError" <=>
             (wpc = "raised" /\ k <= Len(batches) /\ Len(calls) = k - 1
              /\ MissingIdentifier(batches[k]))

C5_Witness ==
    /\ operation = "delete"
    /\ error = "ValueError"
    /\ Len(calls) >= 1
    /\ \E i \in 1..Len(batches[1]) :
         /\ {"Id", "id"} \subseteq DOMAIN heap[batches[1][i]]
         /\ calls[1].url.ids[i] = IdValue(batches[1][i])
    /\ \E i \in 1..Len(batches[1]) :
         /\ "Id" \notin DOMAIN heap[batches[1][i]]
         /\ calls[1].url.ids[i] = LowerIdValue(batches[1][i])

\* C6: every request of an upsert has the object type and then the caller's
\* external_id_field in its path, "Id" when the caller gave none.
C6_UpsertPathUsesExternalId ==
    operation = "upsert" =>
        \A c \in 1..Len(calls) :
            calls[c].url.segs =
                <<object_type,
                  IF external_id_field = None THEN "Id" ELSE external_id_field>>

\* The results of the answers received so far, batch by batch.
RECURSIVE Reconciled(_)
Reconciled(j) ==
    IF j = 0 THEN <<>>
    ELSE Reconciled(j - 1) \o ZipResults(batches[j], responses[j])

CeilDiv(n, b) == (n + b - 1) \div b

\* C11: the calls of a write are one per batch, in input order, and at most
\* one is open at a time: call i is for batch i, a call is made only when
\* every earlier answer has been received and paired into results, and a
\* write that returns has made ceil(n / batch_size) calls.
C11_OneCallAtATimeInOrder ==
    Started =>
        /\ \A i \in 1..Len(calls) :
             /\ calls[i].batch = i
             /\ calls[i].method = CRUDOperation(operation)
             /\ operation # "delete" => calls[i].body.records = batches[i]
        /\ Len(calls) <= Len(batches)
        /\ Len(responses) <= Len(calls)
        /\ Len(calls) <= Len(responses) + 1
        /\ Len(calls) = Len(responses) + 1 <=>
             (wpc = "await" \/ error \in GatewayErrors)
        /\ results = Reconciled(Len(responses))
        /\ wpc = "returned" =>
             /\ Len(calls) = CeilDiv(Len(records), batch_size)
             /\ Len(responses) = Len(calls)

C11_Witness ==
    /\ wpc = "returned"
    /\ Len(calls) = 2
    /\ Len(records) = 3
    /\ batch_size = 2
    /\ Len(returned.value) = 3

\* The first batch that holds a record without an identifier, 0 if none.
FirstBatchMissingIdentifier ==
    IF \E j \in 1..Len(batches) : MissingIdentifier(batches[j])
    THEN CHOOSE j \in 1..Len(batches) :
            /\ MissingIdentifier(batches[j])
            /\ \A i \in 1..(j - 1) : ~ MissingIdentifier(batches[i])
    ELSE 0

\* C16: a delete checks identifiers batch by batch.  No call is ever made
\* for the first batch that lacks an identifier or for a later one; when
\* the delete fails on that batch, the calls of all earlier batches have
\* been made and answered, nothing undoes them, and no result is returned.
C16_DeleteValidatesPerBatch ==
    (operation = "delete" /\ Started /\ FirstBatchMissingIdentifier > 0) =>
        /\ \A c \in 1..Len(calls) : calls[c].batch < FirstBatchMissingIdentifier
        /\ wpc # "returned"
        /\ returned = NoResult
        /\ error = "ValueError" =>
             /\ wpc = "raised"
             /\ k = FirstBatchMissingIdentifier
             /\ Len(calls) = k - 1
             /\ \A c \in 1..Len(calls) :
                  calls[c].batch = c /\ calls[c].method = "DELETE"
             /\ Len(responses) = k - 1
             /\ ~ ENABLED NextWriter
        /\ (wpc = "loop" /\ k = FirstBatchMissingIdentifier) =>
             /\ Len(calls) = k - 1
             /\ ENABLED SendBatch

C16_Witness ==
    /\ operation = "delete"
    /\ error = "ValueError"
    /\ FirstBatchMissingIdentifier = 2
    /\ Len(batches) = 3
    /\ Len(calls) = 1
    /\ Len(responses) = 1

\* The record r is in a batch for which a payload was built.
ReachedPayload(r) ==
    /\ Started
    /\ \E j \in 1..Min(Len(calls), Len(batches)) :
           \E i \in 1..Len(batches[j]) : batches[j][i] = r

\* The dict the caller passed as record r, with the type tag injected.
Tagged(r) ==
    [f \in DOMAIN given.heap[r] \cup {"attributes"} |->
        IF f = "attributes" THEN [type |-> object_type] ELSE given.heap[r][f]]

\* C14: the only change a write makes to the caller's records is the type
\* tag: the list keeps its length and order; under insert, update and upsert
\* each record of a batch that reached payload construction has
\* attributes = {type: object_type} and every other field as passed, and the
\* records of later batches are as passed; delete leaves every record as
\* passed.
C14_OnlyTypeTagInjected ==
    /\ records = given.records
    /\ DOMAIN heap = DOMAIN given.heap
    /\ \A r \in DOMAIN heap :
           heap[r] = IF operation # "delete" /\ ReachedPayload(r)
                     THEN Tagged(r)
                     ELSE given.heap[r]

\* A write of two batches or more stopped after its first request: the
\* records of the first batch are tagged, the others are not.
C14_Witness ==
    /\ operation \in {"insert", "update", "upsert"}
    /\ Started
    /\ wpc = "raised"
    /\ Len(batches) >= 2
    /\ Len(calls) = 1
    /\ \E r \in DOMAIN heap : ReachedPayload(r) /\ heap[r] # given.heap[r]
    /\ \E r \in DOMAIN heap : ~ ReachedPayload(r) /\ heap[r] = given.heap[r]

(***************************************************************************)
(* Properties of the Paginated Reader.                                     *)
(***************************************************************************)
\* The urls a reader has to request when it starts at u and follows every
\* cursor of an unfinished page: the walk stops at a page that is done or
\* has no cursor, or at a url the service was never asked for.
RECURSIVE ChainFrom(_, _)
ChainFrom(u, fuel) ==
    IF fuel = 0 THEN <<>>
    ELSE IF u \notin DOMAIN server THEN <<u>>
    ELSE IF server[u].done = "false" /\ server[u].next # Absent
         THEN <<u>> \o ChainFrom(server[u].next, fuel - 1)
    ELSE <<u>>

TopChain == ChainFrom(QueryUrl, MaxFetch + 1)

\* The records of the pages brought by requests first..last, in order.
RECURSIVE RecordsOfPages(_, _)
RecordsOfPages(first, last) ==
    IF first > last THEN <<>>
    ELSE PageRecords(first) \o RecordsOfPages(first + 1, last)

RequestsInto(o) == SelectSeq(requests, LAMBDA r : r.into = o)

TopLevelOver == rpc \in {"scan", "returned"}

\* C7: when the pages of a query come as done = false, ..., false, true, each
\* unfinished page with a cursor, the reader has requested the query url and
\* then each cursor, once and in order, and the records of the aggregate it
\* returns are the pages' records in that order.
C7_AggregateIsConcatenation ==
    TopLevelOver =>
        LET ch == TopChain
            asked == [i \in 1..Len(ch) |->
                        [url |-> ch[i],
                         params |-> IF i = 1 THEN "q" ELSE None,
                         into |-> Top]]
        IN /\ \A i \in 1..Len(ch) : ch[i] \in DOMAIN server
           /\ server[ch[Len(ch)]].done = "true" =>
                /\ RequestsInto(Top) = asked
                /\ SubSeq(requests, 1, Len(ch)) = asked
                /\ colls[Top].records = RecordsOfPages(1, Len(ch))
                /\ colls[Top].done = "true"

C7_Witness ==
    /\ rpc = "returned"
    /\ Len(TopChain) = 3
    /\ server[TopChain[3]].done = "true"
    /\ Len(colls[Top].records) = 6

\* C8: the aggregate's totalSize is the totalSize of the first page.
C8_TotalSizeOfFirstPage ==
    rpc = "returned" => colls[Top].totalSize = server[QueryUrl].totalSize

\* C9: fetching a page that is not done and has no cursor ends the read with
\* an incomplete-pagination error and without a result; the reader never
\* returns a result that is not done.
C9_IncompletePaginationFails ==
    /\ rpc = "returned" => colls[Top].done = "true"
    /\ (\E u \in DOMAIN server :
           server[u].done = "false" /\ server[u].next = Absent) =>
        /\ rpc = "raised"
        /\ qerror = "IncompletePaginationError"
        /\ qreturned = NoResult

\* The page that brought the records of request f.
PageOf(f) == server[requests[f].url]

\* The records a nested collection holds once its cursor chain is used up:
\* the partial list it came with, then the pages asked for on its behalf.
RECURSIVE RecordsOfRequests(_, _)
RecordsOfRequests(o, f) ==
    IF f > Len(requests) THEN <<>>
    ELSE (IF requests[f].into = o THEN PageRecords(f) ELSE <<>>)
         \o RecordsOfRequests(o, f + 1)

NoRepeat(s) == \A i, j \in 1..Len(s) : s[i] = s[j] => i = j

\* C10: a parent record that came with a nested collection holding a cursor,
\* with or without a done flag, is read to the end: the read does not stop
\* on the collection's shape, and once it has returned the cursor chain has
\* been requested url by url, once each, and the collection's records are
\* the partial list followed by the records of those pages in order.
C10_NestedCollectionResolved ==
    \A f \in 1..Len(requests) :
        (requests[f].url \in DOMAIN server /\ PageOf(f).shape.has
            /\ PageOf(f).shape.next \in Cursors) =>
            LET parent == Ref(f, "r1")
                ch == ChainFrom(PageOf(f).shape.next, MaxFetch + 1)
            IN /\ qerror # "KeyError"
               /\ rpc = "returned" =>
                    /\ [i \in 1..Len(RequestsInto(parent)) |->
                           RequestsInto(parent)[i].url] = ch
                    /\ NoRepeat(ch)
                    /\ colls[parent].records =
                         <<Ref(f, "kid")>> \o RecordsOfRequests(parent, 1)
                    /\ NoRepeat(colls[parent].records)

\* Every page served so far, and every nested collection in it, is done
\* exactly when it has no nextRecordsUrl.
WellFormedService ==
    \A u \in DOMAIN server :
        /\ server[u].done = "true" <=> server[u].next = Absent
        /\ server[u].shape.has =>
             /\ server[u].shape.done \in {"true", "false"}
             /\ server[u].shape.done = "true" <=> server[u].shape.next = Absent

\* C12: a read that has returned leaves no nested collection, at any depth,
\* unfinished with its cursor still to be followed (stated for a service
\* whose pages are all well formed).
C12_NoNestedCollectionLeftPending ==
    (rpc = "returned" /\ WellFormedService) =>
        \A o \in DOMAIN colls \ {Top} :
            ~ (colls[o].done = "false" /\ colls[o].next \in Cursors)

\* C13: within one read no cursor is requested twice (stated for a service
\* whose pages are all well formed).
C13_NoCursorRequestedTwice ==
    WellFormedService =>
        \A i, j \in 1..Len(requests) :
            (requests[i].url \in Cursors /\ requests[i].url = requests[j].url)
                => i = j

(***************************************************************************)
(* Properties of SalesforceClient.                                         *)
(***************************************************************************)
IsMade(e) == e.op \in {"construct", "set_default_instance"}

IsSet(e) == e.op = "set_default_instance"

\* The clients made so far, and those made by set_default_instance, oldest
\* first.
Made == SelectSeq(history, IsMade)

Sets == SelectSeq(history, IsSet)

\* C15: after any sequence of constructions and set_default_instance calls,
\* get_default_instance raises ValueError exactly when no client was ever
\* constructed or set; otherwise it returns the client made by the most
\* recent set_default_instance if there was one, else the first client ever
\* constructed.  The class default is that client in every state, so a
\* plain construction never replaces it and it never goes back to unset.
C15_DefaultInstanceFollowsHistory ==
    LET expected == IF Made = <<>> THEN NoClient
                    ELSE IF Sets # <<>> THEN Sets[Len(Sets)].client
                    ELSE Made[1].client
    IN /\ default_instance = expected
       /\ lookup.called =>
            /\ lookup.raised <=> Made = <<>>
            /\ ~ lookup.raised => lookup.value = expected

\* construct, set_default_instance, construct, then get_default_instance:
\* the client of the set is returned, neither the first nor the latest.
C15_Witness ==
    /\ lookup.called
    /\ ~ lookup.raised
    /\ Len(Made) >= 3
    /\ Sets # <<>>
    /\ history[1].op = "construct"
    /\ history[Len(history)].op = "construct"
    /\ lookup.value = Sets[Len(Sets)].client
    /\ lookup.value \notin {1, nclients}

(***************************************************************************)
(* Properties of the entry points' client resolution.                      *)
(***************************************************************************)
\* The entry point was called and is past building its props.
Entered == wpc \notin {"idle", "call"} \/ rpc \notin {"idle", "call"}

\* The entry point raised before any request was made.
FailedBeforeAnyRequest ==
    \/ wpc = "raised" /\ calls = <<>> /\ error \in {"TypeError", "ValueError"}
       /\ client = NoClient
    \/ rpc = "raised" /\ requests = <<>> /\ qerror = "ValueError"
       /\ client = NoClient

\* C17: an entry point called without a client uses the default instance
\* whenever one is set, and fails before any request only when none is.
C17_NoClientResolvesToDefault ==
    (Entered /\ client_arg = NoClient) =>
        IF default_instance = NoClient
        THEN FailedBeforeAnyRequest
        ELSE client = default_instance /\ ~ FailedBeforeAnyRequest

====
